---- MODULE Spec2Model ----
(***************************************************************************)
(* Model of the three model-acquisition scripts of KagiNote:               *)
(*   scripts/download_onnx_models.py      (download_onnx_models)           *)
(*   scripts/download_pyannote_models.py  (download_pyannote_models)       *)
(*   scripts/export_pyannote_to_onnx.py   (export_pyannote_models)         *)
(* The artifact store is the models directory; a file holds the id of a    *)
(* byte body (0 = the file does not exist).  Each script is a sequence of  *)
(* steps; the registry's answer to each fetch or load is an input.  Local  *)
(* filesystem operations (mkdir, copy, save, open) are taken to succeed.   *)
(***************************************************************************)
EXTENDS Integers, Sequences, FiniteSets, TLC

\* Number of script runs explored one after the other on the same store.
MaxRuns == 2

\* f.read(8): the header read by the check of segmentation.onnx.
HeaderLen == 8
\* header[:4]: the part of the header compared with the signatures.
SigLen == 4
\* f.read(100): the chunk read after the header and searched for the phrase.
ChunkLen == 100

Min(a, b) == IF a < b THEN a ELSE b

-----------------------------------------------------------------------------
(* Bytes and bodies *)

\* b'\x08\x01\x12\x00'
OnnxMagic == <<8, 1, 18, 0>>
\* b'PK\x03\x04'
ZipMagic == <<80, 75, 3, 4>>
\* 'Access to model'
Phrase == <<65, 99, 99, 101, 115, 115, 32, 116, 111, 32, 109, 111, 100, 101, 108>>

\* n filler bytes ('x').
Fill(n) == [i \in 1..n |-> 120]

\* The bodies the registry can serve or a script can write.
\*  1  a portable graph: the ONNX signature, then data
\*  2  a packed archive (raw weights): the zip signature, then data
\*  3  a 42-byte access-denied notice that begins with the phrase
\*  4  a notice with the phrase at offset 8
\*  5  a notice with the phrase at offset 100
\*  6  a text body without the phrase
\*  7  the ONNX signature, with the phrase later in the data
Bodies ==
    << OnnxMagic \o Fill(40),
       ZipMagic \o Fill(40),
       Phrase \o Fill(27),
       Fill(8) \o Phrase \o Fill(20),
       Fill(100) \o Phrase \o Fill(5),
       Fill(60),
       OnnxMagic \o Fill(20) \o Phrase \o Fill(4) >>

BodyIds == 1..Len(Bodies)
OnnxBody == 1
WeightsBody == 2

\* f.read(n) at position pos of a file holding bytes b.
Read(b, pos, n) == SubSeq(b, pos + 1, Min(pos + n, Len(b)))

\* bytes.decode('utf-8', errors='ignore'): bytes that are no text are dropped
\* (every byte below 128 is kept).
Decode(b) == SelectSeq(b, LAMBDA x : x < 128)

\* p in s
Contains(s, p) == \E k \in 0..(Len(s) - Len(p)) : SubSeq(s, k + 1, k + Len(p)) = p

\* header[:4] == b'\x08\x01\x12\x00' or header[:4] == b'PK\x03\x04'
HasSignature(b) ==
    LET header == Read(b, 0, HeaderLen)
        sig == SubSeq(header, 1, Min(SigLen, Len(header)))
    IN  sig = OnnxMagic \/ sig = ZipMagic

\* The chunk the check searches: the 100 bytes that follow the header.
SniffChunk(b) == Decode(Read(b, HeaderLen, ChunkLen))

\* The check of segmentation.onnx: "valid", "error_page" (return False) or
\* "unknown" (neither branch prints; the function goes on).
SniffSeg(b) ==
    IF HasSignature(b) THEN "valid"
    ELSE IF Contains(SniffChunk(b), Phrase) THEN "error_page"
    ELSE "unknown"

-----------------------------------------------------------------------------
(* Candidates *)

Cand(repo, file) == [repo |-> repo, file |-> file]
NoCand == Cand("", "")

OnnxSegCandidates == << Cand("pyannote/segmentation-3.0", "model.onnx") >>

models_to_try ==
    << Cand("pyannote/embedding", "model.onnx"),
       Cand("pyannote/wespeaker-voxceleb-resnet34-LM", "model.onnx"),
       Cand("speechbrain/spkrec-ecapa-voxceleb", "model.onnx") >>

PtSegCandidates == << Cand("pyannote/segmentation-3.0", "pytorch_model.bin") >>

PtEmbCandidates ==
    << Cand("pyannote/embedding", "pytorch_model.bin"),
       Cand("pyannote/wespeaker-voxceleb-resnet34-LM", "pytorch_model.bin") >>

\* Model.from_pretrained(repo) names no file.
ExSegCandidates == << Cand("pyannote/segmentation-3.0", "") >>
ExPublicCandidates == << Cand("pyannote/segmentation", "") >>

Scripts == {"onnx", "pyannote", "export"}
Roles == {"segmentation", "embedding"}

\* The candidate list of a role in a script.
Candidates(s, r) ==
    CASE s = "onnx" /\ r = "segmentation" -> OnnxSegCandidates
      [] s = "onnx" /\ r = "embedding" -> models_to_try
      [] s = "pyannote" /\ r = "segmentation" -> PtSegCandidates
      [] s = "pyannote" /\ r = "embedding" -> PtEmbCandidates
      [] s = "export" /\ r = "segmentation" -> ExSegCandidates
      [] s = "export" /\ r = "embedding" -> ExPublicCandidates
      [] OTHER -> << >>

-----------------------------------------------------------------------------
(* The registry's answers *)

\* hf_hub_download either raises or returns the path of the fetched bytes.
\* The scripts catch every Exception alike; the kind only labels the attempt.
ErrKinds == {"NOT_FOUND", "CONSENT_REQUIRED", "TRANSPORT_ERROR"}
FetchOutcomes ==
    [ok : {TRUE}, body : BodyIds, err : {"none"}]
        \cup [ok : {FALSE}, body : {0}, err : ErrKinds]

\* Model.from_pretrained either raises or returns a loaded model.
LoadOutcomes ==
    [ok : {TRUE}, body : {WeightsBody}, err : {"none"}]
        \cup [ok : {FALSE}, body : {0}, err : ErrKinds]

-----------------------------------------------------------------------------
(* State *)

Files == {"segmentation.onnx", "embedding.onnx", "segmentation.pt",
          "embedding.pt", "segmentation_public.pt"}

VARIABLES
    store,      \* the models directory: file name -> body id, 0 when absent
    script,     \* the script that runs or ran last ("none" before the first)
    pc,         \* its position
    embIdx,     \* the index of the embedding loop in models_to_try
    embedding_downloaded,
    attempts,   \* this run's fetches and loads, in order
    out,        \* this run's outcome lines, in order
    exitCode,   \* the process exit code, -1 while the script runs
    runs        \* the number of runs started

vars == <<store, script, pc, embIdx, embedding_downloaded, attempts, out,
          exitCode, runs>>

Attempt(r, c, o) == [role |-> r, cand |-> c, ok |-> o.ok, body |-> o.body, err |-> o.err]
Line(tag, r, c) == [tag |-> tag, role |-> r, cand |-> c]

Init ==
    /\ store = [f \in Files |-> 0]
    /\ script = "none"
    /\ pc = "done"
    /\ embIdx = 1
    /\ embedding_downloaded = FALSE
    /\ attempts = << >>
    /\ out = << >>
    /\ exitCode = -1
    /\ runs = 0

\* The first step of each script.
FirstPc(s) == IF s = "export" THEN "load" ELSE "seg"

\* A script is started by the operator, on the store the earlier runs left.
Start(s) ==
    /\ pc = "done"
    /\ runs < MaxRuns
    /\ script' = s
    /\ pc' = FirstPc(s)
    /\ embIdx' = 1
    /\ embedding_downloaded' = FALSE
    /\ attempts' = << >>
    /\ out' = << >>
    /\ exitCode' = -1
    /\ runs' = runs + 1
    /\ UNCHANGED store

-----------------------------------------------------------------------------
(* download_onnx_models.py *)

\* __main__: sys.exit(1) when download_onnx_models() returned False.
OnnxExit(success) == IF success THEN 0 ELSE 1

\* Step 3: the segmentation fetch.  A fetched file is copied to
\* segmentation.onnx as it is; an exception returns False.
OnnxSegFetch ==
    /\ script = "onnx" /\ pc = "seg"
    /\ \E o \in FetchOutcomes :
        LET c == OnnxSegCandidates[1] IN
        /\ attempts' = Append(attempts, Attempt("segmentation", c, o))
        /\ IF o.ok
           THEN /\ store' = [store EXCEPT !["segmentation.onnx"] = o.body]
                /\ out' = Append(out, Line("saved", "segmentation", c))
                /\ pc' = "emb"
                /\ exitCode' = exitCode
           ELSE /\ store' = store
                /\ out' = Append(out, Line("failed", "segmentation", c))
                /\ pc' = "done"
                /\ exitCode' = OnnxExit(FALSE)
    /\ UNCHANGED <<script, embIdx, embedding_downloaded, runs>>

EmbBreaksNever(ok) == FALSE
\* The loop over models_to_try leaves at the first fetch that returns (break)
\* and goes on after an exception (continue).
EmbBreaks(ok) == ok

\* Step 4: one iteration of the loop over models_to_try, with the lines
\* after the loop when the iteration is the last.
OnnxEmbTry ==
    /\ script = "onnx" /\ pc = "emb"
    /\ \E o \in FetchOutcomes :
        LET c == models_to_try[embIdx]
            last == EmbBreaks(o.ok) \/ embIdx = Len(models_to_try)
            got == embedding_downloaded \/ o.ok
            line == Line(IF o.ok THEN "saved" ELSE "failed", "embedding", c)
        IN
        /\ attempts' = Append(attempts, Attempt("embedding", c, o))
        /\ store' = IF o.ok THEN [store EXCEPT !["embedding.onnx"] = o.body]
                    ELSE store
        /\ embedding_downloaded' = got
        /\ out' = IF last /\ ~got
                  THEN Append(Append(out, line), Line("not_downloaded", "embedding", NoCand))
                  ELSE Append(out, line)
        /\ pc' = IF last THEN "verify" ELSE "emb"
        /\ embIdx' = IF last THEN embIdx ELSE embIdx + 1
    /\ UNCHANGED <<script, exitCode, runs>>

\* Step 5: the check of the files now in the directory, and the return.
OnnxVerify ==
    /\ script = "onnx" /\ pc = "verify"
    /\ LET seg == store["segmentation.onnx"]
           verdict == IF seg = 0 THEN "absent" ELSE SniffSeg(Bodies[seg])
           segLines == IF verdict = "valid"
                       THEN << Line("valid", "segmentation", NoCand) >>
                       ELSE IF verdict = "error_page"
                       THEN << Line("error_page", "segmentation", NoCand) >>
                       ELSE << >>
           embLines == IF verdict # "error_page" /\ store["embedding.onnx"] # 0
                       THEN << Line("present", "embedding", NoCand) >>
                       ELSE << >>
       IN
       /\ out' = out \o segLines \o embLines
       /\ exitCode' = OnnxExit(verdict # "error_page")
    /\ pc' = "done"
    /\ UNCHANGED <<store, script, embIdx, embedding_downloaded, attempts, runs>>

-----------------------------------------------------------------------------
(* download_pyannote_models.py *)

\* __main__: sys.exit(1) when download_pyannote_models() returned False.
PtExit(success) == IF success THEN 0 ELSE 1

\* Step 1: the segmentation fetch, copied to segmentation.pt.
PtSegFetch ==
    /\ script = "pyannote" /\ pc = "seg"
    /\ \E o \in FetchOutcomes :
        LET c == PtSegCandidates[1] IN
        /\ attempts' = Append(attempts, Attempt("segmentation", c, o))
        /\ IF o.ok
           THEN /\ store' = [store EXCEPT !["segmentation.pt"] = o.body]
                /\ out' = Append(out, Line("saved", "segmentation", c))
                /\ pc' = "emb"
                /\ exitCode' = exitCode
           ELSE /\ store' = store
                /\ out' = Append(out, Line("failed", "segmentation", c))
                /\ pc' = "done"
                /\ exitCode' = PtExit(FALSE)
    /\ UNCHANGED <<script, embIdx, embedding_downloaded, runs>>

\* Step 2: the embedding fetch, copied to embedding.pt; an exception leads
\* to the alternative.
PtEmbFetch ==
    /\ script = "pyannote" /\ pc = "emb"
    /\ \E o \in FetchOutcomes :
        LET c == PtEmbCandidates[1] IN
        /\ attempts' = Append(attempts, Attempt("embedding", c, o))
        /\ IF o.ok
           THEN /\ store' = [store EXCEPT !["embedding.pt"] = o.body]
                /\ out' = Append(out, Line("saved", "embedding", c))
                /\ pc' = "verify"
           ELSE /\ store' = store
                /\ out' = Append(out, Line("failed", "embedding", c))
                /\ pc' = "alt"
    /\ UNCHANGED <<script, embIdx, embedding_downloaded, exitCode, runs>>

\* The alternative embedding model, inside the handler of the first.
PtAltFetch ==
    /\ script = "pyannote" /\ pc = "alt"
    /\ \E o \in FetchOutcomes :
        LET c == PtEmbCandidates[2] IN
        /\ attempts' = Append(attempts, Attempt("embedding", c, o))
        /\ IF o.ok
           THEN /\ store' = [store EXCEPT !["embedding.pt"] = o.body]
                /\ out' = Append(out, Line("saved", "embedding", c))
                /\ pc' = "verify"
                /\ exitCode' = exitCode
           ELSE /\ store' = store
                /\ out' = Append(out, Line("failed", "embedding", c))
                /\ pc' = "done"
                /\ exitCode' = PtExit(FALSE)
    /\ UNCHANGED <<script, embIdx, embedding_downloaded, runs>>

\* return True, then verify_models(): a line per file, by existence alone.
PtVerify ==
    /\ script = "pyannote" /\ pc = "verify"
    /\ out' = out
         \o << Line(IF store["segmentation.pt"] # 0 THEN "present" ELSE "not_found",
                    "segmentation", NoCand),
               Line(IF store["embedding.pt"] # 0 THEN "present" ELSE "not_found",
                    "embedding", NoCand) >>
    /\ exitCode' = PtExit(TRUE)
    /\ pc' = "done"
    /\ UNCHANGED <<store, script, embIdx, embedding_downloaded, attempts, runs>>

-----------------------------------------------------------------------------
(* export_pyannote_to_onnx.py *)

\* __main__ calls export_pyannote_models() and ends: the exit code is 0.
ExExit == 0

\* Step 1: Model.from_pretrained("pyannote/segmentation-3.0").  An exception
\* leads to the handler, as an exception of the export does.
ExLoad ==
    /\ script = "export" /\ pc = "load"
    /\ \E o \in LoadOutcomes :
        LET c == ExSegCandidates[1] IN
        /\ attempts' = Append(attempts, Attempt("segmentation", c, o))
        /\ out' = Append(out, Line(IF o.ok THEN "loaded" ELSE "failed", "segmentation", c))
        /\ pc' = IF o.ok THEN "export" ELSE "fallback"
    /\ UNCHANGED <<store, script, embIdx, embedding_downloaded, exitCode, runs>>

\* Step 2: torch.onnx.export to segmentation.onnx.  It writes the graph or
\* raises before the file is written.
ExExport ==
    /\ script = "export" /\ pc = "export"
    /\ \E exported \in BOOLEAN :
        IF exported
        THEN /\ store' = [store EXCEPT !["segmentation.onnx"] = OnnxBody]
             /\ out' = Append(out, Line("exported", "segmentation", NoCand))
             /\ pc' = "public"
        ELSE /\ store' = store
             /\ out' = Append(out, Line("export_failed", "segmentation", NoCand))
             /\ pc' = "fallback"
    /\ UNCHANGED <<script, embIdx, embedding_downloaded, attempts, exitCode, runs>>

\* Step 3, the handler: the model is loaded again and its state_dict saved
\* to segmentation.pt; an exception is printed and the function goes on.
ExFallback ==
    /\ script = "export" /\ pc = "fallback"
    /\ \E o \in LoadOutcomes :
        LET c == ExSegCandidates[1] IN
        /\ attempts' = Append(attempts, Attempt("segmentation", c, o))
        /\ IF o.ok
           THEN /\ store' = [store EXCEPT !["segmentation.pt"] = WeightsBody]
                /\ out' = Append(out, Line("saved_weights", "segmentation", c))
           ELSE /\ store' = store
                /\ out' = Append(out, Line("alternative_failed", "segmentation", c))
    /\ pc' = "public"
    /\ UNCHANGED <<script, embIdx, embedding_downloaded, exitCode, runs>>

\* Step 4, "Loading embedding model": Model.from_pretrained("pyannote/segmentation"),
\* saved to segmentation_public.pt; then the summary and the end of the process.
ExPublic ==
    /\ script = "export" /\ pc = "public"
    /\ \E o \in LoadOutcomes :
        LET c == ExPublicCandidates[1] IN
        /\ attempts' = Append(attempts, Attempt("embedding", c, o))
        /\ IF o.ok
           THEN /\ store' = [store EXCEPT !["segmentation_public.pt"] = WeightsBody]
                /\ out' = Append(out, Line("saved_weights", "embedding", c))
           ELSE /\ store' = store
                /\ out' = Append(out, Line("failed", "embedding", c))
    /\ exitCode' = ExExit
    /\ pc' = "done"
    /\ UNCHANGED <<script, embIdx, embedding_downloaded, runs>>

-----------------------------------------------------------------------------

Next ==
    \/ \E s \in Scripts : Start(s)
    \/ OnnxSegFetch
    \/ OnnxEmbTry
    \/ OnnxVerify
    \/ PtSegFetch
    \/ PtEmbFetch
    \/ PtAltFetch
    \/ PtVerify
    \/ ExLoad
    \/ ExExport
    \/ ExFallback
    \/ ExPublic

Spec == Init /\ [][Next]_vars

-----------------------------------------------------------------------------
(* Vocabulary of the properties *)

\* A body is a genuine model unless it is an access-denied notice: it carries
\* a known binary signature, or the phrase occurs nowhere in it.
Genuine(id) == HasSignature(Bodies[id]) \/ ~Contains(Bodies[id], Phrase)

\* A script has run to its end.
Done == pc = "done" /\ script # "none"

AttemptsOf(r) == SelectSeq(attempts, LAMBDA a : a.role = r)
HasLine(tag, r) == \E i \in 1..Len(out) : out[i].tag = tag /\ out[i].role = r

IndexOf(list, c) == CHOOSE i \in 1..Len(list) : list[i] = c

\* The lines that report a role's file as obtained.
AcceptTags == {"saved", "exported", "saved_weights"}
\* The lines that give the reason of one failed attempt.
ReasonTags == {"failed", "alternative_failed", "error_page"}

Reasons(r) == SelectSeq(out, LAMBDA l : l.role = r /\ l.tag \in ReasonTags)

\* The run accepted attempt a: it reported the file as saved and did not
\* afterwards report it as an error message.
Accepted(a) ==
    /\ \E i \in 1..Len(out) :
          out[i].tag = "saved" /\ out[i].role = a.role /\ out[i].cand = a.cand
    /\ ~HasLine("error_page", a.role)

\* The run left a genuine artifact for role r: a fetched genuine file in the
\* download scripts, an exported graph or saved weights in the export script.
Obtained(r) ==
    IF script = "export"
    THEN HasLine("exported", r) \/ HasLine("saved_weights", r)
    ELSE \E i \in 1..Len(attempts) :
            attempts[i].role = r /\ attempts[i].ok /\ Genuine(attempts[i].body)

\* Attempt a failed: the fetch raised, or the fetched bytes are not genuine.
Failed(a) == ~a.ok \/ ~Genuine(a.body)

-----------------------------------------------------------------------------
(* Properties *)

\* C1: a candidate is accepted (its file reported as obtained) only if its
\* fetch succeeded and its fetched bytes are a genuine model.
C1_AcceptedOnlyIfValid ==
    Done => \A i \in 1..Len(attempts) :
                Accepted(attempts[i]) => attempts[i].ok /\ Genuine(attempts[i].body)

\* C2: each canonical file of the store (segmentation.onnx, embedding.onnx)
\* is absent or holds a genuine model, after any sequence of runs.
C2_StoreAbsentOrValid ==
    \A f \in {"segmentation.onnx", "embedding.onnx"} :
        store[f] = 0 \/ Genuine(store[f])

\* C3: in a download script the k-th attempt for a role is the k-th candidate
\* of the role's list (declared order, none skipped), and in every script no
\* candidate later in the list is attempted once an attempt has returned a
\* genuine artifact.
C3_OrderedShortCircuit ==
    \A r \in Roles :
        LET a == AttemptsOf(r)
            l == Candidates(script, r)
        IN  /\ Len(a) > 0 => Len(l) > 0
            /\ \A i \in 1..Len(a) : \E k \in 1..Len(l) : l[k] = a[i].cand
            /\ script \in {"onnx", "pyannote"} =>
                  /\ Len(a) <= Len(l)
                  /\ \A i \in 1..Len(a) : a[i].cand = l[i]
            /\ \A i \in 1..Len(a) : \A j \in 1..Len(a) :
                  (i < j /\ a[i].ok /\ Genuine(a[i].body))
                      => IndexOf(l, a[j].cand) <= IndexOf(l, a[i].cand)

\* C3 witness: a finished run of the ONNX download whose first embedding
\* candidate failed and whose second returned a genuine model; the third was
\* never attempted.
C3_Witness ==
    /\ Done /\ script = "onnx"
    /\ LET a == AttemptsOf("embedding") IN
        /\ Len(a) = 2
        /\ ~a[1].ok
        /\ a[2].ok /\ Genuine(a[2].body)
        /\ a[2].cand = models_to_try[2]

\* C4: the exit code of a finished run is non-zero exactly when some required
\* model (segmentation, embedding) ended with no genuine artifact.
C4_ExitCodeReflectsOutcome ==
    Done => ((exitCode # 0) <=> (\E r \in Roles : ~Obtained(r)))

\* C5: when every attempted candidate of a role failed (fetch error or bytes
\* not genuine), the run reports no file as obtained for the role and prints
\* one failure reason per attempted candidate, in candidate order.
C5_AllFailedReported ==
    Done => \A r \in Roles :
        LET a == AttemptsOf(r)
            rs == Reasons(r)
        IN  (Len(a) > 0 /\ \A i \in 1..Len(a) : Failed(a[i]))
                => /\ \A t \in AcceptTags : ~HasLine(t, r)
                   /\ Len(rs) = Len(a)
                   /\ \A i \in 1..Len(rs) : rs[i].cand \in {a[i].cand, NoCand}

\* C6: when the segmentation model loaded and the graph export raised, the
\* export script ends with the raw weights persisted (segmentation.pt) and
\* reports them as saved, not the step as failed.
C6_DegradedPersistsWeights ==
    (Done /\ script = "export" /\ HasLine("loaded", "segmentation")
          /\ HasLine("export_failed", "segmentation"))
        => /\ store["segmentation.pt"] # 0
           /\ HasLine("saved_weights", "segmentation")
           /\ ~HasLine("alternative_failed", "segmentation")

\* C7: for no role does the store hold both a portable-graph file and a
\* raw-weights file.
C7_NeverBothFormats ==
    /\ ~(store["segmentation.onnx"] # 0 /\ store["segmentation.pt"] # 0)
    /\ ~(store["embedding.onnx"] # 0 /\ store["embedding.pt"] # 0)

\* C8: within one run no candidate is fetched or loaded more than once.
C8_NoCandidateTwice ==
    \A i \in 1..Len(attempts) : \A j \in 1..Len(attempts) :
        i < j => attempts[i].cand # attempts[j].cand

\* C9: a failed segmentation fetch does not prevent the embedding resolution:
\* a finished download run has attempted the first embedding candidate, as
\* the run that differs only in a successful segmentation fetch does.
C9_EmbeddingIndependent ==
    (Done /\ script \in {"onnx", "pyannote"})
        => LET a == AttemptsOf("embedding") IN
              Len(a) > 0 /\ a[1].cand = Candidates(script, "embedding")[1]

\* C10: a fetched segmentation file without a known signature whose body
\* contains the phrase 'Access to model' at any offset is judged an error
\* message and the run fails; a file whose first 4 bytes are a known signature
\* is judged a valid model.
C10_PhraseAnywhereRejected ==
    (Done /\ script = "onnx" /\ store["segmentation.onnx"] # 0
          /\ Len(AttemptsOf("segmentation")) > 0
          /\ AttemptsOf("segmentation")[1].ok)
        => LET b == Bodies[store["segmentation.onnx"]] IN
            /\ (~HasSignature(b) /\ Contains(b, Phrase))
                  => HasLine("error_page", "segmentation") /\ exitCode # 0
            /\ HasSignature(b) => HasLine("valid", "segmentation")

====
